---- MODULE Spec2Model ----
(***************************************************************************)
(* Model of kochavareports/client.py: the Credentials holder, the two      *)
(* transport helpers of Client (_get_data, _post_data), the remote         *)
(* operations built on them and the polling loop wait_for_report.          *)
(*                                                                         *)
(* An HTTP exchange is an input of the model (what the remote host and the *)
(* network did); what requests.get / raise_for_status / Response.json and  *)
(* the except clauses of the helpers make of it is computed.               *)
(***************************************************************************)
EXTENDS Integers, Sequences, FiniteSets, TLC

\* ---------------------------------------------------------------- bounds
MaxRetries == 3      \* largest max_retries a caller passes
MaxDelay == 1        \* largest start_delay_seconds / retry_interval_seconds

\* ------------------------------------------------------- module constants
DEFAULT_API_VERSION == "v1.2"
API_ENDPOINT == "https://reporting.api.kochava.com/"

APPS == "getapps"
REPORT_COLUMNS == "reportcolumns"
REPORT_PROGRESS == "progress"
SUMMARY == "summary"

\* --------------------------------------------------------------- values
None == "None"
NoData == [none |-> TRUE]
NoExc == [name |-> "", bases |-> {}]

\* Exceptions of the requests library and of the JSON decoder, with the
\* classes an except clause can match them by.
ConnectionError == [name |-> "ConnectionError", bases |-> {"RequestException"}]
HTTPError == [name |-> "HTTPError", bases |-> {"RequestException"}]
\* json.JSONDecodeError / simplejson.JSONDecodeError: a plain ValueError.
PlainJSONDecodeError == [name |-> "JSONDecodeError", bases |-> {"ValueError"}]
\* requests.exceptions.JSONDecodeError (requests >= 2.27): both an
\* InvalidJSONError (a RequestException) and a ValueError.
RequestsJSONDecodeError ==
    [name |-> "requests.JSONDecodeError", bases |-> {"RequestException", "ValueError"}]

\* The installed requests library decides which class Response.json raises.
RequestsBuilds == {"plain", "compat"}
JSONDecodeErrorOf(build) ==
    IF build = "plain" THEN PlainJSONDecodeError ELSE RequestsJSONDecodeError

\* Response bodies the remote host can send.
BodyEmpty == ""
BodyHtml == "<html>busy</html>"
BodyQueued == "{\"status\":\"queued\"}"
BodyDone1 == "{\"status\":\"completed\",\"report\":\"u1\"}"
BodyDoneNoUrl == "{\"status\":\"completed\"}"
BodyNoStatus == "{}"
BodyToken == "{\"report_token\":\"tok123\"}"
BodyTemplates == "{\"template_values\":\"click\"}"
Bodies == {BodyEmpty, BodyHtml, BodyQueued, BodyDone1, BodyDoneNoUrl,
           BodyNoStatus, BodyToken, BodyTemplates}

\* json.loads as Response.json applies it: the parsed mapping, or NoData
\* when the text is not a JSON document.
JsonLoads(body) ==
    CASE body = BodyQueued -> [status |-> "queued"]
      [] body = BodyDone1 -> [status |-> "completed", report |-> "u1"]
      [] body = BodyDoneNoUrl -> [status |-> "completed"]
      [] body = BodyNoStatus -> [empty |-> TRUE]
      [] body = BodyToken -> [report_token |-> "tok123"]
      [] body = BodyTemplates -> [template_values |-> "click"]
      [] OTHER -> NoData
IsJson(body) == JsonLoads(body) # NoData

Statuses == {200, 300, 500}

\* What one HTTP exchange did: the network failed, or a response arrived.
HttpOutcomes ==
    {[kind |-> "failure", exc |-> ConnectionError, status |-> 0, body |-> BodyEmpty]}
    \cup
    {[kind |-> "response", exc |-> NoExc, status |-> s, body |-> b] :
        s \in Statuses, b \in Bodies}

\* --------------------------------------------------------------- results
Return(v) == [kind |-> "return", exc |-> "", cause |-> "", count |-> 0, val |-> v]
Raise(e, cause, n) == [kind |-> "raise", exc |-> e, cause |-> cause, count |-> n, val |-> NoData]
NoResult == [kind |-> "none", exc |-> "", cause |-> "", count |-> 0, val |-> NoData]

\* ---------------------------------------------------------- Credentials
\* Credentials.__init__: the instance dictionary holds the two attributes.
CredentialsInit(api_key, app_guid) == [api_key |-> api_key, app_guid |-> app_guid]

to_dict_dropping(self) == [k \in {"api_key"} |-> self[k]]
\* Credentials.to_dict: the instance dictionary itself.
to_dict(self) == [k \in DOMAIN self |-> self[k]]

\* --------------------------------------------------------------- Client
_get_url(api_version, endpoint) == API_ENDPOINT \o api_version \o "/" \o endpoint

\* Response.raise_for_status: raises HTTPError for 4xx and 5xx.
raise_for_status(r) == 400 <= r.status /\ r.status < 600

\* The try block of _get_data / _post_data (lines 96-98, 106-108): the
\* value returned, or the exception raised inside the block.
TryRequest(h, build) ==
    IF h.kind = "failure" THEN [ok |-> FALSE, e |-> h.exc, val |-> NoData]
    ELSE IF raise_for_status(h) THEN [ok |-> FALSE, e |-> HTTPError, val |-> NoData]
    ELSE IF ~IsJson(h.body)
         THEN [ok |-> FALSE, e |-> JSONDecodeErrorOf(build), val |-> NoData]
         ELSE [ok |-> TRUE, e |-> NoExc, val |-> JsonLoads(h.body)]

\* The except clauses, tried in the order they are written.
ExceptClauses(e) ==
    IF "RequestException" \in e.bases THEN Raise("HttpException", e.name, 0)
    ELSE IF "ValueError" \in e.bases THEN Raise("ApiException", e.name, 0)
    ELSE Raise(e.name, "", 0)

_get_data(h, build) ==
    LET t == TryRequest(h, build)
    IN  IF t.ok THEN Return(t.val) ELSE ExceptClauses(t.e)

_post_data(h, build) ==
    LET t == TryRequest(h, build)
    IN  IF t.ok THEN Return(t.val) ELSE ExceptClauses(t.e)


\* ------------------------------------------- request builders and parsers
\* (request.py, response.py and exception.py are not part of the sources
\* at hand; these follow the behaviour the design document gives them.)

\* A request payload: the credentials' fields merged with one more field.
WithField(cred, key, value) ==
    [k \in DOMAIN cred \cup {key} |-> IF k = key THEN value ELSE cred[k]]
GetReportProgressRequest(cred, token) == WithField(cred, "token", token)
GetReportColumnsRequest(cred, traffic) == WithField(cred, "traffic", traffic)
CreateReportRequest(cred, reportCategory, time_start) ==
    [reportCategory |-> reportCategory,
     data |-> WithField(cred, "time_start", time_start)]

\* CreateReportResponse(data).report_token
CreateReportResponse(data) ==
    IF "report_token" \in DOMAIN data THEN Return([report_token |-> data.report_token])
    ELSE Raise("ApiResponseException", "report_token", 0)
\* GetTemplatesResponse(data).template_values
GetTemplatesResponse(data) ==
    IF "template_values" \in DOMAIN data
    THEN Return([template_values |-> data.template_values])
    ELSE Raise("ApiResponseException", "template_values", 0)
\* GetReportProgressResponse(data): wraps the raw mapping.
GetReportProgressResponse(data) == data
HasStatus(response) == "status" \in DOMAIN response
is_completed(response) == HasStatus(response) /\ response.status = "completed"
HasReportUrl(response) == is_completed(response) /\ "report" \in DOMAIN response
get_report_url(response) == response.report

\* ------------------------------------------------------------------ state
VARIABLES
    credentials,   \* the instance dictionary of the Client's Credentials
    api_version,   \* Client.api_version
    constructed,   \* the arguments the Client was constructed with
    build,         \* which requests library is installed
    pc,            \* "idle", "delay", "loop", "read", "sleep" or "done"
    op,            \* the Client operation called last
    args,          \* the arguments of the running wait_for_report
    x,             \* the loop variable of wait_for_report
    response,      \* the response of the last progress check
    trace,         \* what wait_for_report did so far, in order
    http,          \* the last HTTP exchange
    sent,          \* the last request handed to requests.get / requests.post
    result,        \* what the last transport helper returned or raised
    outcome        \* how the last operation ended

vars == <<credentials, api_version, constructed, build, pc, op, args, x,
          response, trace, http, sent, result, outcome>>

client == <<credentials, api_version, constructed, build>>

NoHttp == [kind |-> "none", exc |-> NoExc, status |-> 0, body |-> BodyEmpty]
NoSent == [method |-> "", url |-> "", data |-> NoData]
NoArgs == [token |-> "", retry_interval_seconds |-> 0,
           start_delay_seconds |-> 0, max_retries |-> 0]
Sent(method, url, data) == [method |-> method, url |-> url, data |-> data]

Keys == {None, "key"}
Guids == {None, "guid"}
Versions == {DEFAULT_API_VERSION}
Tokens == {"tok123"}
Delays == -1 .. MaxDelay
Retries == -1 .. MaxRetries

\* Client(Credentials(api_key, app_guid), api_version)
Init ==
    /\ \E k \in Keys, g \in Guids, v \in Versions :
          /\ credentials = CredentialsInit(k, g)
          /\ api_version = v
          /\ constructed = [api_key |-> k, app_guid |-> g, api_version |-> v]
    /\ build \in RequestsBuilds
    /\ pc = "idle"
    /\ op = ""
    /\ args = NoArgs
    /\ x = 0
    /\ response = NoData
    /\ trace = <<>>
    /\ http = NoHttp
    /\ sent = NoSent
    /\ result = NoResult
    /\ outcome = NoResult

\* ------------------------------------------------------ simple operations
CanCall == pc \in {"idle", "done"}

\* What every call of an operation other than wait_for_report leaves behind.
Called(name) ==
    /\ op' = name
    /\ pc' = "done"
    /\ args' = NoArgs
    /\ x' = 0
    /\ response' = NoData
    /\ trace' = <<>>
    /\ UNCHANGED <<api_version, constructed, build>>

\* Client.get_apps
get_apps ==
    /\ CanCall
    /\ \E h \in HttpOutcomes :
          LET url == _get_url(api_version, APPS)
              data == to_dict(credentials)
              r == _post_data(h, build)
          IN  /\ http' = h
              /\ sent' = Sent("POST", url, data)
              /\ result' = r
              /\ outcome' = r
              \* data is the credentials' own dictionary; json.dumps reads it
              /\ credentials' = data
    /\ Called("get_apps")

\* Client.get_report_columns
get_report_columns ==
    /\ CanCall
    /\ \E h \in HttpOutcomes, traffic \in {"click"} :
          LET url == _get_url(api_version, REPORT_COLUMNS)
              data == GetReportColumnsRequest(credentials, traffic)
              r == _post_data(h, build)
          IN  /\ http' = h
              /\ sent' = Sent("POST", url, data)
              /\ result' = r
              /\ outcome' = IF r.kind = "raise" THEN r ELSE GetTemplatesResponse(r.val)
    /\ UNCHANGED credentials
    /\ Called("get_report_columns")

\* Client.create_report
create_report ==
    /\ CanCall
    /\ \E h \in HttpOutcomes, time_start \in {"2017-01-25"} :
          LET request == CreateReportRequest(credentials, SUMMARY, time_start)
              url == _get_url(api_version, request.reportCategory)
              r == _post_data(h, build)
          IN  /\ http' = h
              /\ sent' = Sent("POST", url, request.data)
              /\ result' = r
              /\ outcome' = IF r.kind = "raise" THEN r ELSE CreateReportResponse(r.val)
    /\ UNCHANGED credentials
    /\ Called("create_report")

\* Client.get_report_progress, as wait_for_report and a caller use it: the
\* request sent and the response object returned (or the error raised).
ProgressCall(cred, version, token, h, b) ==
    LET url == _get_url(version, REPORT_PROGRESS)
        data == GetReportProgressRequest(cred, token)
        r == _post_data(h, b)
    IN  [sent |-> Sent("POST", url, data),
         raw |-> r,
         ret |-> IF r.kind = "raise" THEN r
                 ELSE Return(GetReportProgressResponse(r.val))]

get_report_progress ==
    /\ CanCall
    /\ \E h \in HttpOutcomes, token \in Tokens :
          LET c == ProgressCall(credentials, api_version, token, h, build)
          IN  /\ http' = h
              /\ sent' = c.sent
              /\ result' = c.raw
              /\ outcome' = c.ret
    /\ UNCHANGED credentials
    /\ Called("get_report_progress")

\* Client.read_report
read_report ==
    /\ CanCall
    /\ \E h \in HttpOutcomes, url \in {"u1"} :
          LET r == _get_data(h, build)
          IN  /\ http' = h
              /\ sent' = Sent("GET", url, NoData)
              /\ result' = r
              /\ outcome' = r
    /\ UNCHANGED credentials
    /\ Called("read_report")

\* ------------------------------------------------------- wait_for_report
Event(ev, tag, url, err) == [ev |-> ev, tag |-> tag, url |-> url, err |-> err]

\* time.sleep raises for a negative length (ValueError; IOError on
\* Python 2) and suspends the caller otherwise.
SleepErrors == {"ValueError", "IOError"}
SleepFails(seconds) == seconds < 0

Truthy_always(seconds) == TRUE
\* "if start_delay_seconds:" / "if retry_interval_seconds:"
Truthy(seconds) == seconds # 0

InRange_inclusive(i, max_retries) == 0 <= i /\ i <= max_retries
\* "for x in range(0, max_retries)": the loop body runs for this x
InRange(i, max_retries) == 0 <= i /\ i < max_retries

PollMaxCount_index(i, max_retries) == i - 1
\* the number PollMaxRetryException reports
PollMaxCount(i, max_retries) == max_retries

Propagates_never(r) == FALSE
\* an exception raised by a call inside wait_for_report leaves it
Propagates(r) == r.kind = "raise"

AfterCheck_ignoring(completed) == "sleep"
\* lines 175-178: where the loop body goes after the progress check
AfterCheck(completed) == IF completed THEN "read" ELSE "sleep"

ReadTarget_stale(resp) == "u0"
\* line 176: the URL handed to read_report
ReadTarget(resp) == get_report_url(resp)

Fail(r) == /\ outcome' = r
           /\ pc' = "done"

\* the call itself: the arguments are bound
wait_for_report ==
    /\ CanCall
    /\ \E t \in Tokens, ri \in Delays, sd \in Delays, mr \in Retries :
          args' = [token |-> t, retry_interval_seconds |-> ri,
                   start_delay_seconds |-> sd, max_retries |-> mr]
    /\ op' = "wait_for_report"
    /\ pc' = "delay"
    /\ x' = 0
    /\ response' = NoData
    /\ trace' = <<>>
    /\ http' = NoHttp
    /\ sent' = NoSent
    /\ result' = NoResult
    /\ outcome' = NoResult
    /\ UNCHANGED client

\* lines 171-172
StartDelay ==
    /\ pc = "delay"
    /\ IF ~Truthy(args.start_delay_seconds)
       THEN /\ pc' = "loop"
            /\ UNCHANGED <<trace, outcome>>
       ELSE IF SleepFails(args.start_delay_seconds)
       THEN /\ \E e \in SleepErrors : Fail(Raise(e, "sleep", 0))
            /\ UNCHANGED trace
       ELSE /\ trace' = Append(trace, Event("sleep", "start", "", ""))
            /\ pc' = "loop"
            /\ UNCHANGED outcome
    /\ UNCHANGED <<client, op, args, x, response, http, sent, result>>

\* lines 173-175: one more iteration, its progress check and the test
Poll ==
    /\ pc = "loop"
    /\ InRange(x, args.max_retries)
    /\ \E h \in HttpOutcomes :
          LET c == ProgressCall(credentials, api_version, args.token, h, build)
          IN  /\ http' = h
              /\ sent' = c.sent
              /\ result' = c.raw
              /\ IF Propagates(c.ret)
                 THEN /\ Fail(c.ret)
                      /\ trace' = Append(trace, Event("progress", "error", "", c.ret.exc))
                      /\ UNCHANGED response
                 ELSE IF ~HasStatus(c.ret.val)
                 THEN /\ Fail(Raise("ApiResponseException", "status", 0))
                      /\ trace' = Append(trace,
                            Event("progress", "error", "",
                                  IF c.ret.kind = "raise" THEN c.ret.exc
                                  ELSE "ApiResponseException"))
                      /\ UNCHANGED response
                 ELSE /\ response' = c.ret.val
                      /\ pc' = AfterCheck(is_completed(c.ret.val))
                      /\ trace' = Append(trace,
                            Event("progress",
                                  IF is_completed(c.ret.val) THEN "completed" ELSE "pending",
                                  IF HasReportUrl(c.ret.val)
                                  THEN get_report_url(c.ret.val) ELSE "", ""))
                      /\ UNCHANGED outcome
    /\ UNCHANGED <<client, op, args, x>>

\* line 176: return self.read_report(response.get_report_url())
Read ==
    /\ pc = "read"
    /\ IF ~HasReportUrl(response)
       THEN /\ Fail(Raise("ApiResponseException", "report", 0))
            /\ trace' = Append(trace,
                  Event("get_report_url", "error", "", "ApiResponseException"))
            /\ UNCHANGED <<http, sent, result>>
       ELSE \E h \in HttpOutcomes :
               LET url == ReadTarget(response)
                   r == _get_data(h, build)
               IN  /\ http' = h
                   /\ sent' = Sent("GET", url, NoData)
                   /\ result' = r
                   /\ Fail(r)
                   /\ trace' = Append(trace,
                         Event("read", IF r.kind = "raise" THEN "error" ELSE "ok",
                               url, r.exc))
    /\ UNCHANGED <<client, op, args, x, response>>

\* lines 177-178, and the step of the for loop
RetrySleep ==
    /\ pc = "sleep"
    /\ IF ~Truthy(args.retry_interval_seconds)
       THEN /\ pc' = "loop"
            /\ x' = x + 1
            /\ UNCHANGED <<trace, outcome>>
       ELSE IF SleepFails(args.retry_interval_seconds)
       THEN /\ \E e \in SleepErrors : Fail(Raise(e, "sleep", 0))
            /\ UNCHANGED <<trace, x>>
       ELSE /\ trace' = Append(trace, Event("sleep", "retry", "", ""))
            /\ pc' = "loop"
            /\ x' = x + 1
            /\ UNCHANGED outcome
    /\ UNCHANGED <<client, op, args, response, http, sent, result>>

\* lines 179-180: the range is used up
Exhaust ==
    /\ pc = "loop"
    /\ ~InRange(x, args.max_retries)
    /\ Fail(Raise("PollMaxRetryException", "", PollMaxCount(x, args.max_retries)))
    /\ UNCHANGED <<client, op, args, x, response, trace, http, sent, result>>

Step == StartDelay \/ Poll \/ Read \/ RetrySleep \/ Exhaust

Next ==
    \/ get_apps
    \/ get_report_columns
    \/ create_report
    \/ get_report_progress
    \/ read_report
    \/ wait_for_report
    \/ StartDelay
    \/ Poll
    \/ Read
    \/ RetrySleep
    \/ Exhaust

Spec == Init /\ [][Next]_vars

\* A running wait_for_report keeps running: every call and sleep returns.
FairSpec == Spec /\ WF_vars(Step)

TypeOK ==
    /\ pc \in {"idle", "delay", "loop", "read", "sleep", "done"}
    /\ x \in 0 .. MaxRetries + 1
    /\ Len(trace) <= 2 * MaxRetries + 4

\* ----------------------------------------------------------- properties
Waiting == op = "wait_for_report"
Finished == Waiting /\ pc = "done"

EventsOf(ev) == {i \in 1 .. Len(trace) : trace[i].ev = ev}
SleepsOf(tag) == {i \in EventsOf("sleep") : trace[i].tag = tag}
NProgress == Cardinality(EventsOf("progress"))
NRead == Cardinality(EventsOf("read"))
Max(a, b) == IF a >= b THEN a ELSE b

NeverCompleted == \A i \in EventsOf("progress") : trace[i].tag = "pending"
Exhausted == Finished /\ outcome.kind = "raise" /\ outcome.exc = "PollMaxRetryException"
NonNegativeArgs ==
    /\ args.max_retries >= 0
    /\ args.retry_interval_seconds >= 0
    /\ args.start_delay_seconds >= 0

\* C1: with non-negative arguments and a progress source that never reports
\* completion (and never fails), a finished wait_for_report has made exactly
\* max_retries progress checks and no read, and has raised
\* PollMaxRetryException reporting max_retries; with max_retries = 0 that
\* is zero checks.
C1_ExhaustionAfterMaxRetries ==
    (Finished /\ NonNegativeArgs /\ NeverCompleted) =>
        /\ NProgress = args.max_retries
        /\ NRead = 0
        /\ outcome = Raise("PollMaxRetryException", "", args.max_retries)

C1_Witness ==
    /\ Exhausted /\ NonNegativeArgs /\ NeverCompleted
    /\ args.max_retries = 2
    /\ NProgress = 2

\* C2: when the k-th progress check is the first to report completion (with
\* a report URL), k checks were made (k <= max_retries), every earlier one
\* was pending, the call goes on to read and, once finished, exactly one
\* read of that response's URL follows the k-th check, the value returned
\* is the body read_report produced, and the call does not end in
\* PollMaxRetryException.
C2_CompletionOnKthCheck ==
    \A i \in EventsOf("progress") :
        (trace[i].tag = "completed" /\ trace[i].url # "") =>
            /\ \A j \in EventsOf("progress") :
                  /\ j <= i
                  /\ j < i => trace[j].tag = "pending"
            /\ NProgress = x + 1
            /\ NProgress <= args.max_retries
            /\ pc \in {"read", "done"}
            /\ pc = "done" =>
                  /\ Len(trace) = i + 1
                  /\ trace[i + 1].ev = "read"
                  /\ trace[i + 1].url = trace[i].url
                  /\ sent = Sent("GET", trace[i].url, NoData)
                  /\ NRead = 1
                  /\ outcome = result
                  /\ outcome.exc # "PollMaxRetryException"
                  /\ result.kind = "return" => outcome.val = JsonLoads(http.body)

C2_Witness ==
    /\ Finished
    /\ outcome.kind = "return"
    /\ NProgress = 2
    /\ NRead = 1
    /\ trace[Len(trace) - 1].tag = "completed"

\* C3 (as claimed): a 200 response whose body is empty or not JSON makes
\* either transport helper raise ApiException, never HttpException.
C3_UnparsableBodyIsApiException ==
    (/\ result.kind # "none"
     /\ sent.method \in {"GET", "POST"}
     /\ http.kind = "response"
     /\ http.status = 200
     /\ ~IsJson(http.body)) =>
        /\ result.kind = "raise"
        /\ result.exc = "ApiException"

\* C4 (as claimed): a response outside 2xx, or a transport failure, makes
\* either transport helper raise HttpException, never ApiException, and no
\* parsed body is returned.
C4_Non2xxIsHttpException ==
    (/\ result.kind # "none"
     /\ sent.method \in {"GET", "POST"}
     /\ \/ http.kind = "failure"
        \/ http.kind = "response" /\ ~(200 <= http.status /\ http.status < 300)) =>
        /\ result.kind = "raise"
        /\ result.exc = "HttpException"

\* C5: an error raised by a progress check, by get_report_url or by
\* read_report inside wait_for_report is the last thing the call does: the
\* call is finished, nothing follows the failed step, and the caller gets
\* that very error (the transport helper's error unchanged), never
\* PollMaxRetryException.
C5_ErrorsPropagateAtOnce ==
    \A i \in 1 .. Len(trace) :
        trace[i].tag = "error" =>
            /\ i = Len(trace)
            /\ pc = "done"
            /\ outcome.kind = "raise"
            /\ outcome.exc = trace[i].err
            /\ outcome.exc # "PollMaxRetryException"
            /\ result.kind = "raise" => outcome = result
            /\ Cardinality({j \in 1 .. Len(trace) : trace[j].tag = "error"}) = 1

C5_Witness ==
    /\ Finished
    /\ NProgress = 2
    /\ trace[Len(trace)].ev = "progress"
    /\ trace[Len(trace)].tag = "error"
    /\ outcome.exc = "HttpException"

\* C6: to_dict of the Client's credentials has exactly the keys api_key and
\* app_guid with the constructed values (None included), get_apps sends
\* exactly that mapping, and the credentials and the api_version are what
\* the Client was constructed with after every operation, failed or not.
C6_CredentialsUnchanged ==
    /\ DOMAIN to_dict(credentials) = {"api_key", "app_guid"}
    /\ to_dict(credentials).api_key = constructed.api_key
    /\ to_dict(credentials).app_guid = constructed.app_guid
    /\ credentials = CredentialsInit(constructed.api_key, constructed.app_guid)
    /\ api_version = constructed.api_version
    /\ op = "get_apps" =>
          sent.data = [api_key |-> constructed.api_key,
                       app_guid |-> constructed.app_guid]

C6_Witness ==
    /\ op = "get_apps"
    /\ pc = "done"
    /\ outcome.kind = "raise"
    /\ constructed.api_key = None
    /\ sent.data.api_key = None

\* C7 (as claimed): an inter-poll sleep is always followed by another
\* progress check, so a finished call never ends on one, and an exhausted
\* call with max_retries = n >= 1 and a positive interval slept n - 1 times
\* between polls.
C7_SleepOnlyWhenIterationsRemain ==
    /\ (Finished /\ trace # <<>>) =>
          ~(trace[Len(trace)].ev = "sleep" /\ trace[Len(trace)].tag = "retry")
    /\ (Exhausted /\ args.max_retries >= 1 /\ args.retry_interval_seconds > 0) =>
          Cardinality(SleepsOf("retry")) = args.max_retries - 1

\* C8: once past the start delay, the call has slept for the start delay
\* exactly once, first of all, if start_delay_seconds > 0 and not at all
\* otherwise; with start_delay_seconds = 0 the first thing done is a progress
\* check (or the exhaustion error when there is nothing to check); with
\* retry_interval_seconds = 0 there is no sleep between checks, and an
\* exhausted call has made max(max_retries, 0) checks whatever the interval.
C8_StartDelayOnceAndZeroInterval ==
    (Waiting /\ pc # "delay") =>
        /\ Cardinality(SleepsOf("start")) =
              (IF args.start_delay_seconds > 0 THEN 1 ELSE 0)
        /\ \A i \in SleepsOf("start") : i = 1
        /\ (args.start_delay_seconds = 0 /\ trace # <<>>) => trace[1].ev = "progress"
        /\ (args.start_delay_seconds = 0 /\ trace = <<>> /\ pc = "done") =>
              (Exhausted /\ args.max_retries <= 0)
        /\ args.retry_interval_seconds = 0 => SleepsOf("retry") = {}
        /\ Exhausted => NProgress = Max(args.max_retries, 0)

C8_Witness ==
    /\ Exhausted
    /\ args.start_delay_seconds = 1
    /\ args.retry_interval_seconds = 0
    /\ NProgress = 2
    /\ Len(trace) = 3

\* C9: read_report is called at most once in a run, directly after a
\* progress check whose response was completed and with that response's
\* URL; nothing follows the read, and an exhausted run has no read.
C9_ReadOnlyAfterCompletion ==
    /\ NRead <= 1
    /\ \A i \in EventsOf("read") :
          /\ i > 1
          /\ trace[i - 1].ev = "progress"
          /\ trace[i - 1].tag = "completed"
          /\ trace[i].url = trace[i - 1].url
          /\ sent.url = trace[i - 1].url
          /\ response.report = trace[i].url
          /\ i = Len(trace)
          /\ pc = "done"
    /\ Exhausted => NRead = 0

C9_Witness ==
    /\ Finished
    /\ NRead = 1
    /\ NProgress = 3
    /\ trace[Len(trace)].tag = "error"

\* C10: a started wait_for_report finishes, whatever its arguments and
\* whatever the remote service does; it makes at most max(max_retries, 0)
\* progress checks and at most one read, and it has an outcome (a returned
\* body or a raised error) exactly when it has finished.
C10_Terminates ==
    /\ [](pc = "delay" => <>(pc = "done"))
    /\ [](Waiting =>
            /\ NProgress <= Max(args.max_retries, 0)
            /\ NRead <= 1
            /\ (pc = "done") <=> (outcome.kind \in {"return", "raise"})
            /\ (pc # "done") <=> (outcome.kind = "none"))

C10_Witness ==
    /\ Exhausted
    /\ args.max_retries = -1
    /\ args.retry_interval_seconds = 1
    /\ trace = <<>>
====
